---- MODULE Spec2Model ----
(***************************************************************************)
(* State-machine model of the PDF viewer of pdf-reader-ai                  *)
(* (frontend/src/components/PDFViewer.jsx): the React state of the         *)
(* component, the canvas elements it mounts, the asynchronous page render  *)
(* tasks and document loads in flight, and the pending highlight expiry    *)
(* timers.  Scale is kept in hundredths (1.5 is 150), time in ms.          *)
(***************************************************************************)
EXTENDS Integers, Sequences, FiniteSets, TLC

\* ---------------------------------------------------------------- bounds
MaxCalls  == 2      \* highlightAndScroll calls in one behaviour
MaxZooms  == 1      \* toolbar zoom clicks in one behaviour of Spec
MaxZoomClicks == 7  \* toolbar zoom clicks in one behaviour of SpecZoom
MaxTicks  == 2      \* clock advances in one behaviour
MaxLoads  == 1      \* pdfUrl prop changes in one behaviour
MaxCoord  == 2      \* largest bbox coordinate given to the mapping alone
MaxDim    == 3      \* largest page or canvas dimension given to it
MaxSends  == 2      \* accepted sendMessage calls in one behaviour
MaxLen    == 5      \* longest message content drawn from Alphabet
TickMs    == 4000   \* largest clock advance of one Tick step

\* ------------------------------------------------------ program constants
ExpiryMs  == 8000   \* setTimeout delay of highlightAndScroll
ScaleInit == 150    \* useState(1.5)
ScaleMin  == 50     \* Math.max(0.5, ...)
ScaleMax  == 300    \* Math.min(3, ...)
ScaleStep == 25     \* s - 0.25, s + 0.25

\* ------------------------------------------------------------ environment
\* Documents served for the two urls: page count and native page size.
Urls == {1, 2}
NumPages(u) == IF u = 1 THEN 2 ELSE 1
PageSize(u) == IF u = 1 THEN [w |-> 160, h |-> 240] ELSE [w |-> 440, h |-> 280]
PageNums == 1..2

\* Citations handed to highlightAndScroll by the chat panel.
Box(a, b, c, d) == [x0 |-> a, y0 |-> b, x1 |-> c, y1 |-> d]
Citations ==
    << [page |-> 0, boxes |-> << Box(10, 20, 50, 40) >>,
        pageWidth |-> 160, pageHeight |-> 240],
       [page |-> 1, boxes |-> << Box(0, 30, 100, 60), Box(0, 60, 40, 90) >>,
        pageWidth |-> 160, pageHeight |-> 240],
       [page |-> 0, boxes |-> << Box(0, 20, 50, 40) >>,
        pageWidth |-> 0, pageHeight |-> 240] >>
CitIds == 1..Len(Citations)

NoDoc    == [id |-> 0, url |-> 0]
NoCanvas == [el |-> 0, w |-> 0, h |-> 0, rscale |-> 0, rdoc |-> 0]
NoStyle  == [null |-> TRUE]

VARIABLES
    pdfUrl,         \* prop pdfUrl
    pdfDoc,         \* useState pdfDoc ([id, url]; NoDoc is null)
    renderedPages,  \* useState renderedPages (sequence of page numbers)
    scale,          \* useState scale, in hundredths
    totalPages,     \* useState totalPages
    isLoading,      \* useState isLoading
    highlights,     \* useState highlights (sequence of highlight records)
    canvas,         \* canvasRefs.current: page number -> canvas element
    elems,          \* number of canvas elements created so far
    loads,          \* getDocument promises in flight
    loadSeq,        \* number of getDocument calls so far
    tasks,          \* renderPage invocations suspended at an await
    timers,         \* pending setTimeout callbacks: [due] and, as history,
                    \* the call that set it [batch, cit, atScale]
    now,            \* Date.now()
    shown,          \* style of each highlight as of the last React render
    scrollReq,      \* page index last passed to scrollIntoView (-1: none)
    scrollTop,      \* container.scrollTop of the pages container
    currentPage,    \* useState currentPage (1-based, shown in the toolbar)
    message,        \* prop message of a ChatMessage
    parsedContent,  \* what ChatMessage renders for it (<< >>: not rendered)
    mapIn,          \* a highlight and the canvas of its page
    mapOut,         \* the style getHighlightStyle returned for it
    fileId,         \* documentInfo?.file_id of App (0: no document)
    messages,       \* useChat: useState messages
    chatIsLoading,  \* useChat: useState isLoading
    chatError,      \* useChat: useState error (0: null)
    seenIsLoading,  \* isLoading as the handlers of the last render closed
                    \* over it (sendMessage, handleSubmit)
    queries,        \* queryPDF calls awaiting their response
    sends,          \* history: number of accepted sendMessage calls so far
                    \* history variables, not stored by the program:
    calls,          \* number of highlightAndScroll calls so far
    zooms,          \* number of scale-changing clicks so far
    zoomCap,        \* cap on zooms for this behaviour
    last            \* the last step taken: [op, arg]

vars == << pdfUrl, pdfDoc, renderedPages, scale, totalPages, isLoading,
           highlights, canvas, elems, loads, loadSeq, tasks, timers, now,
           shown, scrollReq, scrollTop, currentPage, message, parsedContent,
           mapIn, mapOut, fileId, messages, chatIsLoading, chatError,
           seenIsLoading, queries, sends, calls, zooms, zoomCap, last >>

scrollVars == << scrollTop, currentPage >>
chatVars   == << message, parsedContent >>
mapVars    == << mapIn, mapOut >>
hookVars   == << fileId, messages, chatIsLoading, chatError, seenIsLoading,
                 queries, sends >>

\* ---------------------------------------------------------------- helpers
Min(a, b) == IF a < b THEN a ELSE b
Max(a, b) == IF a > b THEN a ELSE b
Range(s) == { s[i] : i \in DOMAIN s }

RECURSIVE Gcd(_, _)
Gcd(a, b) == IF b = 0 THEN a ELSE Gcd(b, a % b)

\* JavaScript numbers (non-negative operands): a fraction in lowest terms,
\* Infinity (1/0) or NaN (0/0).
JsInfinity == [n |-> 1, d |-> 0]
JsNaN      == [n |-> 0, d |-> 0]
Frac(n, d) == LET g == Gcd(IF n < 0 THEN -n ELSE n, d)
              IN  [n |-> n \div g, d |-> d \div g]
JsDiv(a, b) == IF b = 0 THEN (IF a = 0 THEN JsNaN ELSE JsInfinity)
               ELSE Frac(a, b)
JsMul(k, q) == IF q = JsNaN THEN JsNaN
               ELSE IF q = JsInfinity THEN (IF k = 0 THEN JsNaN ELSE JsInfinity)
               ELSE Frac(k * q.n, q.d)
Px(q) == << q, "px" >>

CanvasAt(cv, p) == IF p \in DOMAIN cv THEN cv[p] ELSE NoCanvas

\* getHighlightStyle with one scale factor for both axes.
getHighlightStyleUniform(cv, h) ==
    LET c == CanvasAt(cv, h.page + 1)
    IN  IF c = NoCanvas THEN NoStyle
        ELSE LET scaleX == JsDiv(c.w, h.sourcePageWidth)
             IN  [ left   |-> Px(JsMul(h.bbox.x0, scaleX)),
                   top    |-> Px(JsMul(h.bbox.y0, scaleX)),
                   width  |-> Px(JsMul(h.bbox.x1 - h.bbox.x0, scaleX)),
                   height |-> Px(JsMul(h.bbox.y1 - h.bbox.y0, scaleX)) ]

\* getHighlightStyle giving the far corner in place of the extent.
getHighlightStyleCorner(cv, h) ==
    LET c == CanvasAt(cv, h.page + 1)
    IN  IF c = NoCanvas THEN NoStyle
        ELSE LET scaleX == JsDiv(c.w, h.sourcePageWidth)
                 scaleY == JsDiv(c.h, h.sourcePageHeight)
             IN  [ left   |-> Px(JsMul(h.bbox.x0, scaleX)),
                   top    |-> Px(JsMul(h.bbox.y0, scaleY)),
                   width  |-> Px(JsMul(h.bbox.x1, scaleX)),
                   height |-> Px(JsMul(h.bbox.y1, scaleY)) ]

\* getHighlightStyle(highlight), reading the canvas refs cv.
getHighlightStyle(cv, h) ==
    LET c == CanvasAt(cv, h.page + 1)
    IN  IF c = NoCanvas THEN NoStyle
        ELSE LET scaleX == JsDiv(c.w, h.sourcePageWidth)
                 scaleY == JsDiv(c.h, h.sourcePageHeight)
             IN  [ left   |-> Px(JsMul(h.bbox.x0, scaleX)),
                   top    |-> Px(JsMul(h.bbox.y0, scaleY)),
                   width  |-> Px(JsMul(h.bbox.x1 - h.bbox.x0, scaleX)),
                   height |-> Px(JsMul(h.bbox.y1 - h.bbox.y0, scaleY)) ]

\* The map of highlightAndScroll filling the batch from the last box to the
\* first.
NewHighlightsReversed(c, t, b) ==
    [ i \in 1..Len(Citations[c].boxes) |->
        [ id |-> << "highlight", t, i - 1 >>,
          page |-> Citations[c].page,
          bbox |-> Citations[c].boxes[Len(Citations[c].boxes) + 1 - i],
          sourcePageWidth |-> Citations[c].pageWidth,
          sourcePageHeight |-> Citations[c].pageHeight,
          batch |-> b ] ]

\* boundingBoxes.map(...) of highlightAndScroll; batch is the number of the
\* call, a history field that the program does not store.
NewHighlights(c, t, b) ==
    [ i \in 1..Len(Citations[c].boxes) |->
        [ id |-> << "highlight", t, i - 1 >>,
          page |-> Citations[c].page,
          bbox |-> Citations[c].boxes[i],
          sourcePageWidth |-> Citations[c].pageWidth,
          sourcePageHeight |-> Citations[c].pageHeight,
          batch |-> b ] ]

PagesOf(doc) == [ i \in 1..NumPages(doc.url) |-> i ]

\* page.getViewport({ scale }) and the assignment to canvas.width/height.
ViewportOf(doc, sc) ==
    [ w |-> (PageSize(doc.url).w * sc) \div 100,
      h |-> (PageSize(doc.url).h * sc) \div 100 ]

\* A fresh <canvas> element: the HTML default size, nothing rendered.
FreshCanvas(e) == [el |-> e, w |-> 300, h |-> 150, rscale |-> 0, rdoc |-> 0]

\* One React render and commit of the component with the given state.
\* Highlight styles are computed during the render from the refs of the
\* previous commit; the commit mounts/unmounts canvases and every canvas ref
\* callback calls renderPage, which suspends at getPage.
RenderPass(st, doc, sc, loading, rp, hl) ==
    LET mounted == IF loading THEN {} ELSE Range(rp)
        fresh   == { p \in mounted : st.canvas[p] = NoCanvas }
        e       == IF fresh = {} THEN st.elems ELSE st.elems + 1
        cv      == [ p \in PageNums |->
                       IF p \notin mounted THEN NoCanvas
                       ELSE IF p \in fresh THEN FreshCanvas(e)
                       ELSE st.canvas[p] ]
        started == IF doc = NoDoc THEN {}
                   ELSE { [page |-> p, el |-> cv[p].el, doc |-> doc, scale |-> sc]
                            : p \in mounted }
    IN  [ canvas |-> cv,
          elems  |-> e,
          tasks  |-> st.tasks \cup started,
          shown  |-> [ i \in DOMAIN hl |->
                         IF (hl[i].page + 1) \in mounted
                         THEN getHighlightStyle(st.canvas, hl[i])
                         ELSE NoStyle ] ]

\* The re-render caused by a state change, followed by the effect
\* [pdfDoc, scale] (setRenderedPages and the re-render that follows) when
\* one of its dependencies changed.
Rerender(doc, sc, loading, rp, hl) ==
    LET st0  == [canvas |-> canvas, elems |-> elems, tasks |-> tasks]
        r1   == RenderPass(st0, doc, sc, loading, rp, hl)
        eff  == doc # NoDoc /\ (doc # pdfDoc \/ sc # scale)
        rp2  == IF eff THEN PagesOf(doc) ELSE rp
        r2   == IF eff THEN RenderPass(r1, doc, sc, loading, rp2, hl) ELSE r1
    IN  /\ renderedPages' = rp2
        /\ canvas' = r2.canvas
        /\ elems' = r2.elems
        /\ tasks' = r2.tasks
        /\ shown' = r2.shown

\* What the pages container shows: the JSX has these two branches and no
\* other.
ViewBody(loading) == IF loading THEN "pdf-loading" ELSE "pages"

\* ------------------------------------------------------------------- Init
InitCommon ==
    /\ pdfDoc = NoDoc
    /\ renderedPages = << >>
    /\ scale = ScaleInit
    /\ totalPages = 0
    /\ isLoading = TRUE
    /\ highlights = << >>
    /\ canvas = [ p \in PageNums |-> NoCanvas ]
    /\ elems = 0
    /\ loads = { [id |-> 1, url |-> pdfUrl] }
    /\ loadSeq = 1
    /\ tasks = {}
    /\ timers = {}
    /\ now = 0
    /\ shown = << >>
    /\ scrollReq = -1
    /\ scrollTop = 0
    /\ currentPage = 1
    /\ fileId = pdfUrl
    /\ messages = << >>
    /\ chatIsLoading = FALSE
    /\ chatError = 0
    /\ seenIsLoading = FALSE
    /\ queries = {}
    /\ sends = 0
    /\ calls = 0
    /\ zooms = 0
    /\ last = [op |-> "mount", arg |-> 0]

\* No chat message is rendered and no mapping is evaluated on its own.
NoMessage == [role |-> "none", content |-> << >>,
              citations |-> [defined |-> FALSE, table |-> << >>]]
NoMapIn   == [null |-> TRUE]
NoElement == [tag |-> "none", key |-> 0, children |-> << >>, onClick |-> 0]
InitNoPure ==
    /\ message = NoMessage
    /\ parsedContent = NoElement
    /\ mapIn = NoMapIn
    /\ mapOut = NoStyle

Init == pdfUrl = 1 /\ InitCommon /\ InitNoPure /\ zoomCap = MaxZooms

\* ---------------------------------------------------------------- actions
\* The parent passes a different pdfUrl: the effect [pdfUrl] runs.
SetUrl(u) ==
    /\ u # pdfUrl
    /\ loadSeq <= MaxLoads
    /\ pdfUrl' = u
    /\ isLoading' = TRUE
    /\ loadSeq' = loadSeq + 1
    /\ loads' = loads \cup { [id |-> loadSeq + 1, url |-> u] }
    /\ Rerender(pdfDoc, scale, TRUE, << >>, highlights)
    /\ last' = [op |-> "setUrl", arg |-> u]
    /\ UNCHANGED << pdfDoc, scale, totalPages, highlights, timers, now,
                    calls, zooms, zoomCap, scrollReq,
                    scrollVars, chatVars, mapVars,
                    hookVars >>

\* loadingTask.promise resolves.
LoadComplete(l) ==
    /\ l \in loads
    /\ loads' = loads \ {l}
    /\ pdfDoc' = l
    /\ totalPages' = NumPages(l.url)
    /\ isLoading' = FALSE
    /\ Rerender(l, scale, FALSE, renderedPages, highlights)
    /\ last' = [op |-> "loadComplete", arg |-> l.id]
    /\ UNCHANGED << pdfUrl, scale, highlights, loadSeq, timers, now,
                    calls, zooms, zoomCap, scrollReq,
                    scrollVars, chatVars, mapVars,
                    hookVars >>

\* loadingTask.promise rejects.
LoadFail(l) ==
    /\ l \in loads
    /\ loads' = loads \ {l}
    /\ isLoading' = FALSE
    /\ Rerender(pdfDoc, scale, FALSE, renderedPages, highlights)
    /\ last' = [op |-> "loadFail", arg |-> l.id]
    /\ UNCHANGED << pdfUrl, pdfDoc, scale, totalPages, highlights, loadSeq,
                    timers, now, calls, zooms, zoomCap, scrollReq,
                    scrollVars, chatVars, mapVars,
                    hookVars >>

\* A setScale that also drops the stored highlights when the scale changes.
SetScaleDroppingBatch(op, s) ==
    /\ zooms < zoomCap
    /\ scale' = s
    /\ zooms' = zooms + 1
    /\ highlights' = IF s = scale THEN highlights ELSE << >>
    /\ IF s = scale
       THEN UNCHANGED << renderedPages, canvas, elems, tasks, shown >>
       ELSE Rerender(pdfDoc, s, isLoading, renderedPages, << >>)
    /\ last' = [op |-> op, arg |-> scale]
    /\ UNCHANGED << pdfUrl, pdfDoc, totalPages, isLoading, loads,
                    loadSeq, timers, now, calls, zoomCap, scrollReq,
                    scrollVars, chatVars, mapVars,
                    hookVars >>

\* setScale(s): a toolbar click; React bails out when the value is unchanged.
SetScale(op, s) ==
    /\ zooms < zoomCap
    /\ scale' = s
    /\ zooms' = zooms + 1
    /\ IF s = scale
       THEN UNCHANGED << renderedPages, canvas, elems, tasks, shown >>
       ELSE Rerender(pdfDoc, s, isLoading, renderedPages, highlights)
    /\ last' = [op |-> op, arg |-> scale]
    /\ UNCHANGED << pdfUrl, pdfDoc, totalPages, isLoading, highlights, loads,
                    loadSeq, timers, now, calls, zoomCap, scrollReq,
                    scrollVars, chatVars, mapVars,
                    hookVars >>

ZoomOut   == SetScale("zoomOut", Max(ScaleMin, scale - ScaleStep))
\* Mutant: zoom-in without the upper clamp.
ZoomInUnclamped == SetScale("zoomIn", scale + ScaleStep)
ZoomIn    == SetScale("zoomIn", Min(ScaleMax, scale + ScaleStep))
ResetZoom == SetScale("reset", ScaleInit)

\* A renderPage invocation resumes after getPage and sets the canvas size
\* of the element it captured; a detached element is not in canvasRefs.
RenderComplete(t) ==
    /\ t \in tasks
    /\ t.page <= NumPages(t.doc.url)
    /\ tasks' = tasks \ {t}
    /\ canvas' = IF canvas[t.page].el = t.el
                 THEN [ canvas EXCEPT ![t.page] =
                          [ el |-> t.el,
                            w |-> ViewportOf(t.doc, t.scale).w,
                            h |-> ViewportOf(t.doc, t.scale).h,
                            rscale |-> t.scale, rdoc |-> t.doc.id ] ]
                 ELSE canvas
    /\ last' = [op |-> "renderComplete", arg |-> t.page]
    /\ UNCHANGED << pdfUrl, pdfDoc, renderedPages, scale, totalPages,
                    isLoading, highlights, elems, loads, loadSeq, timers,
                    now, shown, calls, zooms, zoomCap, scrollReq,
                    scrollVars, chatVars, mapVars,
                    hookVars >>

\* page.render(...).promise rejects: the canvas has been resized, which
\* clears it, and nothing was drawn; the catch block logs.
DrawFail(t) ==
    /\ t \in tasks
    /\ t.page <= NumPages(t.doc.url)
    /\ tasks' = tasks \ {t}
    /\ canvas' = IF canvas[t.page].el = t.el
                 THEN [ canvas EXCEPT ![t.page] =
                          [ el |-> t.el,
                            w |-> ViewportOf(t.doc, t.scale).w,
                            h |-> ViewportOf(t.doc, t.scale).h,
                            rscale |-> 0, rdoc |-> 0 ] ]
                 ELSE canvas
    /\ last' = [op |-> "drawFail", arg |-> t.page]
    /\ UNCHANGED << pdfUrl, pdfDoc, renderedPages, scale, totalPages,
                    isLoading, highlights, elems, loads, loadSeq, timers,
                    now, shown, calls, zooms, zoomCap, scrollReq,
                    scrollVars, chatVars, mapVars,
                    hookVars >>

\* A failure that drops every pending render.
RenderFailAbortsAll(t) ==
    /\ t \in tasks
    /\ tasks' = {}
    /\ last' = [op |-> "renderFail", arg |-> t.page]
    /\ UNCHANGED << pdfUrl, pdfDoc, renderedPages, scale, totalPages,
                    isLoading, highlights, canvas, elems, loads, loadSeq,
                    timers, now, shown, calls, zooms, zoomCap, scrollReq,
                    scrollVars, chatVars, mapVars,
                    hookVars >>

\* getPage rejects: the catch block logs and nothing else changes.
RenderFail(t) ==
    /\ t \in tasks
    /\ tasks' = tasks \ {t}
    /\ last' = [op |-> "renderFail", arg |-> t.page]
    /\ UNCHANGED << pdfUrl, pdfDoc, renderedPages, scale, totalPages,
                    isLoading, highlights, canvas, elems, loads, loadSeq,
                    timers, now, shown, calls, zooms, zoomCap, scrollReq,
                    scrollVars, chatVars, mapVars,
                    hookVars >>

\* Mutant: the new boxes are appended to the previous highlights.
highlightAndScrollMerge(c) ==
    /\ calls < MaxCalls
    /\ calls' = calls + 1
    /\ highlights' = highlights \o NewHighlights(c, now, calls + 1)
    /\ timers' = timers \cup { [batch |-> calls + 1, cit |-> c,
                               atScale |-> scale, due |-> now + ExpiryMs] }
    /\ scrollReq' = IF CanvasAt(canvas, Citations[c].page + 1) # NoCanvas
                    THEN Citations[c].page ELSE scrollReq
    /\ Rerender(pdfDoc, scale, isLoading, renderedPages, highlights')
    /\ last' = [op |-> "highlightAndScroll", arg |-> c]
    /\ UNCHANGED << pdfUrl, pdfDoc, scale, totalPages, isLoading, loads,
                    loadSeq, now, zooms, zoomCap,
                    scrollVars, chatVars, mapVars,
                    hookVars >>

\* highlightAndScroll(pageNumber, boundingBoxes, pageWidth, pageHeight).
highlightAndScroll(c) ==
    /\ calls < MaxCalls
    /\ calls' = calls + 1
    /\ highlights' = NewHighlights(c, now, calls + 1)
    /\ timers' = timers \cup { [batch |-> calls + 1, cit |-> c,
                               atScale |-> scale, due |-> now + ExpiryMs] }
    /\ scrollReq' = IF CanvasAt(canvas, Citations[c].page + 1) # NoCanvas
                    THEN Citations[c].page ELSE scrollReq
    /\ Rerender(pdfDoc, scale, isLoading, renderedPages, highlights')
    /\ last' = [op |-> "highlightAndScroll", arg |-> c]
    /\ UNCHANGED << pdfUrl, pdfDoc, scale, totalPages, isLoading, loads,
                    loadSeq, now, zooms, zoomCap,
                    scrollVars, chatVars, mapVars,
                    hookVars >>

\* A clear that also empties the list of pages.
clearHighlightsAndPages ==
    /\ highlights' = << >>
    /\ Rerender(pdfDoc, scale, isLoading, << >>, << >>)
    /\ last' = [op |-> "clearHighlights", arg |-> Len(highlights)]
    /\ UNCHANGED << pdfUrl, pdfDoc, scale, totalPages, isLoading, loads,
                    loadSeq, timers, now, calls, zooms, zoomCap, scrollReq,
                    scrollVars, chatVars, mapVars,
                    hookVars >>

\* clearHighlights(); last.arg records how many highlights it removed.
clearHighlights ==
    /\ highlights' = << >>
    /\ Rerender(pdfDoc, scale, isLoading, renderedPages, << >>)
    /\ last' = [op |-> "clearHighlights", arg |-> Len(highlights)]
    /\ UNCHANGED << pdfUrl, pdfDoc, scale, totalPages, isLoading, loads,
                    loadSeq, timers, now, calls, zooms, zoomCap, scrollReq,
                    scrollVars, chatVars, mapVars,
                    hookVars >>

\* The setTimeout callback of a highlightAndScroll call runs.
TimerFire(t) ==
    /\ t \in timers
    /\ t.due <= now
    /\ timers' = timers \ {t}
    /\ highlights' = << >>
    /\ Rerender(pdfDoc, scale, isLoading, renderedPages, << >>)
    /\ last' = [op |-> "timerFire", arg |-> t.batch]
    /\ UNCHANGED << pdfUrl, pdfDoc, scale, totalPages, isLoading, loads,
                    loadSeq, now, calls, zooms, zoomCap, scrollReq,
                    scrollVars, chatVars, mapVars,
                    hookVars >>

\* Time passes, at most up to the next timer deadline; a due timer runs
\* before time passes further.
Tick ==
    /\ now < MaxTicks * TickMs
    /\ \A t \in timers : t.due > now
    /\ LET target == now + TickMs
           dues   == { t.due : t \in timers }
       IN  now' = IF \E d \in dues : d < target
                  THEN CHOOSE d \in dues : \A d2 \in dues : d <= d2
                  ELSE target
    /\ last' = [op |-> "tick", arg |-> now]
    /\ UNCHANGED << pdfUrl, pdfDoc, renderedPages, scale, totalPages,
                    isLoading, highlights, canvas, elems, loads, loadSeq,
                    tasks, timers, shown, calls, zooms, zoomCap, scrollReq,
                    scrollVars, chatVars, mapVars,
                    hookVars >>

Next ==
    \/ \E l \in loads : LoadComplete(l)
    \/ \E l \in loads : LoadFail(l)
    \/ ZoomOut
    \/ ZoomIn
    \/ ResetZoom
    \/ \E t \in tasks : RenderComplete(t)
    \/ \E t \in tasks : RenderFail(t)
    \/ \E c \in CitIds : highlightAndScroll(c)
    \/ clearHighlights
    \/ \E t \in timers : TimerFire(t)
    \/ Tick

Spec == Init /\ [][Next]_vars

\* The highlight lifecycle alone: no toolbar clicks.
InitHL == pdfUrl = 1 /\ InitCommon /\ InitNoPure /\ zoomCap = 0

NextHL ==
    \/ \E l \in loads : LoadComplete(l)
    \/ \E l \in loads : LoadFail(l)
    \/ \E t \in tasks : RenderComplete(t)
    \/ \E t \in tasks : RenderFail(t)
    \/ \E c \in CitIds : highlightAndScroll(c)
    \/ clearHighlights
    \/ \E t \in timers : TimerFire(t)
    \/ Tick

SpecHL == InitHL /\ [][NextHL]_vars

\* The toolbar alone, on the one-page document, with enough clicks to reach
\* both ends of the zoom range.
InitZoom == pdfUrl = 2 /\ InitCommon /\ InitNoPure /\ zoomCap = MaxZoomClicks

NextZoom ==
    \/ \E l \in loads : LoadComplete(l)
    \/ \E l \in loads : LoadFail(l)
    \/ ZoomOut
    \/ ZoomIn
    \/ ResetZoom
    \/ \E t \in tasks : RenderComplete(t)
    \/ \E t \in tasks : RenderFail(t)

SpecZoom == InitZoom /\ [][NextZoom]_vars

\* ----------------------------------------------------------- scroll tracking
\* The pages container: its clientHeight, and the scroll offsets a scroll
\* event can leave it at.
Viewport == [clientHeight |-> 400]
ScrollStops == {0, 80, 160, 240, 320}

RECURSIVE HeightBefore(_, _)
\* Layout: the page wrappers are stacked, each as tall as its canvas.
HeightBefore(cv, p) == IF p = 1 THEN 0
                       ELSE HeightBefore(cv, p - 1) + cv[p - 1].h
ContentHeight(cv) == HeightBefore(cv, Len(cv) + 1)
MaxScroll(cv) == Max(0, ContentHeight(cv) - Viewport.clientHeight)
\* rect.top - containerRect.top of the wrapper of page p at scrollTop y.
RectTop(cv, p, y) == HeightBefore(cv, p) - y

\* The condition of handleScroll for pageRefs.current[p - 1].
InTopHalf(cv, p, y) ==
    /\ cv[p] # NoCanvas
    /\ RectTop(cv, p, y) >= 0
    /\ 2 * RectTop(cv, p, y) <= Viewport.clientHeight

RECURSIVE ScanDown(_, _, _, _)
\* The loop of handleScroll run from the last entry to the first.
ScanDown(cv, y, p, cur) ==
    IF p < 1 THEN cur
    ELSE IF InTopHalf(cv, p, y) THEN p
    ELSE ScanDown(cv, y, p - 1, cur)
handleScrollDescending(cv, y, cur) == ScanDown(cv, y, Len(cv), cur)

RECURSIVE ScanPages(_, _, _, _)
\* for (const [pageNum, element] of Object.entries(pageRefs.current)):
\* keys in ascending order, p = parseInt(pageNum) + 1; the first entry that
\* passes sets the current page and breaks.
ScanPages(cv, y, p, cur) ==
    IF p > Len(cv) THEN cur
    ELSE IF InTopHalf(cv, p, y) THEN p
    ELSE ScanPages(cv, y, p + 1, cur)
\* The value of currentPage after handleScroll.
handleScroll(cv, y, cur) == ScanPages(cv, y, 1, cur)

\* ------------------------------------------------------------ ChatMessage
\* Strings are sequences of characters.
Digits == {"0", "1", "2", "3", "4", "5", "6", "7", "8", "9"}
Alphabet == {"[", "]", "1", "2", "x", "*"}

RECURSIVE DigitRunEnd(_, _)
\* Index of the last character of the longest run of digits starting at i
\* (i - 1 when s[i] is not a digit): the greedy \d+.
DigitRunEnd(s, i) ==
    IF i <= Len(s) /\ s[i] \in Digits THEN DigitRunEnd(s, i + 1) ELSE i - 1

\* \[\d\] in place of \[\d+\].
MarkerEndOneDigit(s, i) ==
    IF i + 2 <= Len(s) /\ s[i] = "[" /\ s[i + 1] \in Digits /\ s[i + 2] = "]"
    THEN i + 2 ELSE 0

\* /\[\d+\]/ matched at position i of s: the index of its last character,
\* 0 when it does not match there.
MarkerEnd(s, i) ==
    IF i <= Len(s) /\ s[i] = "["
    THEN LET e == DigitRunEnd(s, i + 1)
         IN  IF e >= i + 1 /\ e + 1 <= Len(s) /\ s[e + 1] = "]" THEN e + 1 ELSE 0
    ELSE 0

RECURSIVE SplitFromNoCapture(_, _, _)
\* The split without the capturing group: the matches are left out.
SplitFromNoCapture(s, q, p) ==
    IF p > Len(s) THEN << SubSeq(s, q, Len(s)) >>
    ELSE LET e == MarkerEnd(s, p)
         IN  IF e = 0 THEN SplitFromNoCapture(s, q, p + 1)
             ELSE << SubSeq(s, q, p - 1) >>
                    \o SplitFromNoCapture(s, e + 1, e + 1)

RECURSIVE SplitFrom(_, _, _)
\* content.split(/(\[\d+\])/g): the pieces between matches (empty ones
\* kept) alternating with the captured matches; q is where the current
\* piece starts and p the position the regex is tried at.
SplitFrom(s, q, p) ==
    IF p > Len(s) THEN << SubSeq(s, q, Len(s)) >>
    ELSE LET e == MarkerEnd(s, p)
         IN  IF e = 0 THEN SplitFrom(s, q, p + 1)
             ELSE << SubSeq(s, q, p - 1), SubSeq(s, p, e) >>
                    \o SplitFrom(s, e + 1, e + 1)
Split(s) == SplitFrom(s, 1, 1)

\* part.match(/^\[(\d+)\]$/): whether it matches, and its group 1.
CitationMatch(part) == Len(part) > 0 /\ MarkerEnd(part, 1) = Len(part)
CitationNum(part) == SubSeq(part, 2, Len(part) - 1)

RECURSIVE BoldClose(_, _)
\* The lazy .*? of /\*\*(.*?)\*\*/: the first j >= i where ** stands, 0 if
\* there is none.
BoldClose(s, j) ==
    IF j + 1 > Len(s) THEN 0
    ELSE IF s[j] = "*" /\ s[j + 1] = "*" THEN j ELSE BoldClose(s, j + 1)

TextNode(t) == [tag |-> "text", key |-> 0, children |-> t, onClick |-> 0]
Strong(i, t) == [tag |-> "strong", key |-> i, children |-> t, onClick |-> 0]

RECURSIVE MarkdownFrom(_, _, _, _)
\* The replace, split and map of renderBasicMarkdown in one scan: text
\* pieces alternating with <strong> elements; i is the index in the array.
MarkdownFrom(s, q, p, i) ==
    IF p + 1 > Len(s) THEN << TextNode(SubSeq(s, q, Len(s))) >>
    ELSE LET c == IF s[p] = "*" /\ s[p + 1] = "*" THEN BoldClose(s, p + 2)
                  ELSE 0
         IN  IF c = 0 THEN MarkdownFrom(s, q, p + 1, i)
             ELSE << TextNode(SubSeq(s, q, p - 1)),
                     Strong(i + 1, SubSeq(s, p + 2, c - 1)) >>
                    \o MarkdownFrom(s, c + 2, c + 2, i + 2)

\* renderBasicMarkdown(text); the empty string is returned as it is.
renderBasicMarkdown(text) ==
    IF text = << >> THEN << >> ELSE MarkdownFrom(text, 1, 1, 0)

\* message.citations: undefined, or an object keyed by digit strings.
NoCitations == [defined |-> FALSE, table |-> << >>]
Table(t) == [defined |-> TRUE, table |-> t]
Undefined == 0

\* A lookup that falls back to the first citation of the table.
LookupOrFirst(citations, num) ==
    IF num \in DOMAIN citations.table THEN citations.table[num]
    ELSE IF << "1" >> \in DOMAIN citations.table
         THEN citations.table[<< "1" >>] ELSE Undefined

\* message.citations[citationNum]
Lookup(citations, num) ==
    IF num \in DOMAIN citations.table THEN citations.table[num] ELSE Undefined

\* The element parts.map returns for the part at index (0-based).
PartElement(citations, part, index) ==
    LET citation == IF CitationMatch(part)
                    THEN Lookup(citations, CitationNum(part)) ELSE Undefined
    IN  IF CitationMatch(part) /\ citation # Undefined
        THEN [ tag |-> "button", key |-> index,
               children |-> << TextNode(<< "[" >> \o CitationNum(part)
                                               \o << "]" >>) >>,
               onClick |-> citation ]
        ELSE [ tag |-> "span", key |-> index,
               children |-> renderBasicMarkdown(part), onClick |-> 0 ]

\* The useMemo body of parsedContent.
ParsedContent(m) ==
    IF m.role = "user" \/ ~m.citations.defined
    THEN [ tag |-> "p", key |-> 0,
           children |-> << TextNode(m.content) >>, onClick |-> 0 ]
    ELSE LET parts == Split(m.content)
         IN  [ tag |-> "div", key |-> 0,
               children |-> [ i \in 1..Len(parts) |->
                                PartElement(m.citations, parts[i], i - 1) ],
               onClick |-> 0 ]

\* The messages given to ChatMessage alone: every content over Alphabet up
\* to MaxLen and three longer ones, with the citation objects below.
Example  == << "S", "e", "e", " ", "[", "1", "]", " ", "a", "n", "d", " ",
               "[", "2", "]", "." >>
Adjacent == << "[", "1", "]", "[", "2", "]" >>
Unknown  == << "S", "e", "e", " ", "[", "9", "]", "." >>
Contents == UNION { [1..k -> Alphabet] : k \in 0..MaxLen }
              \cup {Example, Adjacent, Unknown}
CitationObjects ==
    { NoCitations, Table(<< >>), Table(<< "1" >> :> 1),
      Table(<< "1" >> :> 1 @@ << "2" >> :> 2) }
Messages ==
    { [role |-> "user", content |-> c, citations |-> NoCitations]
        : c \in Contents }
    \cup [ role : {"assistant"}, content : Contents,
           citations : CitationObjects ]

InitChat ==
    /\ pdfUrl = 1 /\ InitCommon /\ zoomCap = 0
    /\ mapIn = NoMapIn /\ mapOut = NoStyle
    /\ message \in Messages
    /\ parsedContent = NoElement

RenderMessage ==
    /\ message # NoMessage
    /\ parsedContent = NoElement
    /\ parsedContent' = ParsedContent(message)
    /\ last' = [op |-> "renderMessage", arg |-> 0]
    /\ UNCHANGED << pdfUrl, pdfDoc, renderedPages, scale, totalPages, isLoading,
                    highlights, canvas, elems, loads, loadSeq, tasks, timers,
                    now, shown, scrollReq, calls, zooms, zoomCap, message,
                    scrollVars, mapVars,
                    hookVars >>

SpecChat == InitChat /\ [][RenderMessage]_vars

\* Rendering with failures: a document loads, page renders complete or
\* fail at either await, and zoom clicks and clearHighlights re-render.
InitRender == pdfUrl = 1 /\ InitCommon /\ InitNoPure /\ zoomCap = MaxZooms

NextRender ==
    \/ \E l \in loads : LoadComplete(l)
    \/ \E t \in tasks : RenderComplete(t)
    \/ \E t \in tasks : RenderFail(t)
    \/ \E t \in tasks : DrawFail(t)
    \/ ZoomOut
    \/ ZoomIn
    \/ clearHighlights

SpecRender == InitRender /\ [][NextRender]_vars

\* Scroll tracking: a document loads and renders, the user scrolls, the
\* document is replaced.
\* A scroll event at offset y: handleScroll, and the re-render when
\* setCurrentPage changed the state.
ScrollEvent(y) ==
    /\ scrollTop' = y
    /\ currentPage' = handleScroll(canvas, y, currentPage)
    /\ IF currentPage' = currentPage
       THEN UNCHANGED << renderedPages, canvas, elems, tasks, shown >>
       ELSE Rerender(pdfDoc, scale, isLoading, renderedPages, highlights)
    /\ last' = [op |-> "scroll", arg |-> y]
    /\ UNCHANGED << pdfUrl, pdfDoc, scale, totalPages, isLoading, highlights,
                    loads, loadSeq, timers, now, scrollReq, calls, zooms,
                    zoomCap, chatVars, mapVars,
                    hookVars >>

\* The user scrolls the container.
Scroll(y) ==
    /\ y # scrollTop
    /\ scrollTop <= MaxScroll(canvas)
    /\ y <= MaxScroll(canvas)
    /\ ScrollEvent(y)

\* The content became shorter than the scroll offset allows: the browser
\* moves the offset to the largest one and fires a scroll event.
ScrollClamp ==
    /\ scrollTop > MaxScroll(canvas)
    /\ ScrollEvent(MaxScroll(canvas))

InitScroll == pdfUrl = 1 /\ InitCommon /\ InitNoPure /\ zoomCap = 0

NextScroll ==
    \/ \E u \in Urls : SetUrl(u)
    \/ \E l \in loads : LoadComplete(l)
    \/ \E t \in tasks : RenderComplete(t)
    \/ \E y \in ScrollStops : Scroll(y)
    \/ ScrollClamp

SpecScroll == InitScroll /\ [][NextScroll]_vars

\* ---------------------------------------------------------------- useChat
\* What the user types, the backend's answers and its error text.
Questions == { << "a" >>, << " ", "b", " " >>, << " " >> }
Results ==
    { [answer |-> Example,
       citations |-> Table(<< "1" >> :> 1 @@ << "2" >> :> 2)],
      [answer |-> << "o", "k" >>, citations |-> Table(<< >>)] }
ErrText == << "d", "o", "w", "n" >>

RECURSIVE TrimStart(_)
TrimStart(s) == IF s # << >> /\ Head(s) = " " THEN TrimStart(Tail(s)) ELSE s
RECURSIVE TrimEnd(_)
TrimEnd(s) == IF s # << >> /\ s[Len(s)] = " "
              THEN TrimEnd(SubSeq(s, 1, Len(s) - 1)) ELSE s
\* String.prototype.trim
Trim(s) == TrimEnd(TrimStart(s))

\* The message objects of sendMessage; q is the number of the call that
\* made them, a history field the program does not store.
UserMessage(question, q) ==
    [ role |-> "user", content |-> question, citations |-> NoCitations,
      isError |-> FALSE, q |-> q ]
AiMessage(result, q) ==
    [ role |-> "assistant", content |-> result.answer,
      citations |-> result.citations, isError |-> FALSE, q |-> q ]
ErrorMessage(text, q) ==
    [ role |-> "assistant",
      content |-> << "E", "r", "r", "o", "r", ":", " " >> \o text,
      citations |-> Table(<< >>), isError |-> TRUE, q |-> q ]

\* A submit whose state updates are not rendered before the next event.
SubmitNoFlush(input) ==
    /\ fileId # 0
    /\ sends < MaxSends
    /\ IF Trim(input) # << >> /\ ~seenIsLoading
       THEN /\ messages' = Append(messages, UserMessage(Trim(input), sends + 1))
            /\ chatIsLoading' = TRUE
            /\ chatError' = 0
            /\ queries' = queries \cup { [q |-> sends + 1,
                                          question |-> Trim(input),
                                          fileId |-> fileId] }
            /\ sends' = sends + 1
            /\ seenIsLoading' = seenIsLoading
            /\ last' = [op |-> "sendMessage", arg |-> sends + 1]
       ELSE /\ last' = [op |-> "sendIgnored", arg |-> 0]
            /\ UNCHANGED << messages, chatIsLoading, chatError, queries,
                            sends, seenIsLoading >>
    /\ UNCHANGED << pdfUrl, pdfDoc, renderedPages, scale, totalPages,
                    isLoading, highlights, canvas, elems, loads, loadSeq,
                    tasks, timers, now, shown, scrollReq, calls, zooms,
                    zoomCap, fileId, scrollVars, chatVars, mapVars >>

\* A submit event of the chat form: handleSubmit and the sendMessage it
\* calls, both reading isLoading as of the last render, up to the await;
\* React renders the updates of the event before the next event.
Submit(input) ==
    /\ fileId # 0
    /\ sends < MaxSends
    /\ IF Trim(input) # << >> /\ ~seenIsLoading
       THEN /\ messages' = Append(messages, UserMessage(Trim(input), sends + 1))
            /\ chatIsLoading' = TRUE
            /\ chatError' = 0
            /\ queries' = queries \cup { [q |-> sends + 1,
                                          question |-> Trim(input),
                                          fileId |-> fileId] }
            /\ sends' = sends + 1
            /\ seenIsLoading' = TRUE
            /\ last' = [op |-> "sendMessage", arg |-> sends + 1]
       ELSE /\ last' = [op |-> "sendIgnored", arg |-> 0]
            /\ UNCHANGED << messages, chatIsLoading, chatError, queries,
                            sends, seenIsLoading >>
    /\ UNCHANGED << pdfUrl, pdfDoc, renderedPages, scale, totalPages,
                    isLoading, highlights, canvas, elems, loads, loadSeq,
                    tasks, timers, now, shown, scrollReq, calls, zooms,
                    zoomCap, fileId, scrollVars, chatVars, mapVars >>

\* queryPDF resolves: the try block continues, then finally.
QueryResolve(qr, result) ==
    /\ qr \in queries
    /\ queries' = queries \ {qr}
    /\ messages' = Append(messages, AiMessage(result, qr.q))
    /\ chatIsLoading' = FALSE
    /\ last' = [op |-> "queryResolve", arg |-> qr.q]
    /\ UNCHANGED << pdfUrl, pdfDoc, renderedPages, scale, totalPages,
                    isLoading, highlights, canvas, elems, loads, loadSeq,
                    tasks, timers, now, shown, scrollReq, calls, zooms,
                    zoomCap, fileId, chatError, seenIsLoading, sends,
                    scrollVars, chatVars, mapVars >>

\* A rejection whose handler never resets the loading flag.
QueryRejectNoFinally(qr) ==
    /\ qr \in queries
    /\ queries' = queries \ {qr}
    /\ chatError' = 1
    /\ messages' = Append(messages, ErrorMessage(ErrText, qr.q))
    /\ last' = [op |-> "queryReject", arg |-> qr.q]
    /\ UNCHANGED << pdfUrl, pdfDoc, renderedPages, scale, totalPages,
                    isLoading, highlights, canvas, elems, loads, loadSeq,
                    tasks, timers, now, shown, scrollReq, calls, zooms,
                    zoomCap, fileId, chatIsLoading, seenIsLoading, sends,
                    scrollVars, chatVars, mapVars >>

\* queryPDF rejects: the catch block, then finally.
QueryReject(qr) ==
    /\ qr \in queries
    /\ queries' = queries \ {qr}
    /\ chatError' = 1
    /\ messages' = Append(messages, ErrorMessage(ErrText, qr.q))
    /\ chatIsLoading' = FALSE
    /\ last' = [op |-> "queryReject", arg |-> qr.q]
    /\ UNCHANGED << pdfUrl, pdfDoc, renderedPages, scale, totalPages,
                    isLoading, highlights, canvas, elems, loads, loadSeq,
                    tasks, timers, now, shown, scrollReq, calls, zooms,
                    zoomCap, fileId, seenIsLoading, sends,
                    scrollVars, chatVars, mapVars >>

\* React renders the updates made after an await: the handlers now close
\* over the current isLoading.
ChatRender ==
    /\ seenIsLoading # chatIsLoading
    /\ seenIsLoading' = chatIsLoading
    /\ last' = [op |-> "chatRender", arg |-> 0]
    /\ UNCHANGED << pdfUrl, pdfDoc, renderedPages, scale, totalPages,
                    isLoading, highlights, canvas, elems, loads, loadSeq,
                    tasks, timers, now, shown, scrollReq, calls, zooms,
                    zoomCap, fileId, messages, chatIsLoading, chatError,
                    queries, sends, scrollVars, chatVars, mapVars >>

\* The Upload New PDF button: setDocumentInfo(null) and clearChat().
handleNewDocument ==
    /\ fileId # 0
    /\ fileId' = 0
    /\ messages' = << >>
    /\ chatError' = 0
    /\ seenIsLoading' = chatIsLoading
    /\ last' = [op |-> "newDocument", arg |-> 0]
    /\ UNCHANGED << pdfUrl, pdfDoc, renderedPages, scale, totalPages,
                    isLoading, highlights, canvas, elems, loads, loadSeq,
                    tasks, timers, now, shown, scrollReq, calls, zooms,
                    zoomCap, chatIsLoading, queries, sends,
                    scrollVars, chatVars, mapVars >>

\* An upload completes: setDocumentInfo(result) and clearChat(); the render
\* that follows mounts the chat panel.
handleUploadComplete(f) ==
    /\ fileId = 0
    /\ fileId' = f
    /\ messages' = << >>
    /\ chatError' = 0
    /\ seenIsLoading' = chatIsLoading
    /\ last' = [op |-> "uploadComplete", arg |-> f]
    /\ UNCHANGED << pdfUrl, pdfDoc, renderedPages, scale, totalPages,
                    isLoading, highlights, canvas, elems, loads, loadSeq,
                    tasks, timers, now, shown, scrollReq, calls, zooms,
                    zoomCap, chatIsLoading, queries, sends,
                    scrollVars, chatVars, mapVars >>

\* The chat hook under App: the viewer's own state is left aside.
InitSend == pdfUrl = 1 /\ InitCommon /\ InitNoPure /\ zoomCap = 0

NextSend ==
    \/ \E input \in Questions : Submit(input)
    \/ \E qr \in queries, r \in Results : QueryResolve(qr, r)
    \/ \E qr \in queries : QueryReject(qr)
    \/ ChatRender
    \/ handleNewDocument
    \/ \E f \in Urls : handleUploadComplete(f)

SpecSend == InitSend /\ [][NextSend]_vars

\* The operations around a stored batch, on the one-page document:
\* highlight calls, clear, zoom, scroll events, render completions and
\* failures.  The clock stands still, so no timer runs.
InitFrame == pdfUrl = 2 /\ InitCommon /\ InitNoPure /\ zoomCap = MaxZooms

NextFrame ==
    \/ \E l \in loads : LoadComplete(l)
    \/ \E t \in tasks : RenderComplete(t)
    \/ \E t \in tasks : RenderFail(t)
    \/ \E t \in tasks : DrawFail(t)
    \/ ZoomOut
    \/ ZoomIn
    \/ ResetZoom
    \/ \E y \in ScrollStops : Scroll(y)
    \/ ScrollClamp
    \/ \E c \in CitIds : highlightAndScroll(c)
    \/ clearHighlights

SpecFrame == InitFrame /\ [][NextFrame]_vars

\* The coordinate mapping alone: one highlight and the canvas of its page,
\* drawn from all boxes and positive dimensions within the bounds, and one
\* evaluation of getHighlightStyle for it.
MapInputs ==
    [ bbox : [x0 : 0..MaxCoord, y0 : 0..MaxCoord,
              x1 : 0..MaxCoord, y1 : 0..MaxCoord],
      sourcePageWidth : 1..MaxDim, sourcePageHeight : 1..MaxDim,
      width : 1..MaxDim, height : 1..MaxDim ]

InitMap ==
    /\ pdfUrl = 1 /\ InitCommon /\ zoomCap = 0
    /\ message = NoMessage /\ parsedContent = NoElement
    /\ mapIn \in MapInputs
    /\ mapOut = NoStyle

MapHighlight == [ id |-> << "highlight", 0, 0 >>, page |-> 0,
                  bbox |-> mapIn.bbox,
                  sourcePageWidth |-> mapIn.sourcePageWidth,
                  sourcePageHeight |-> mapIn.sourcePageHeight, batch |-> 0 ]
MapCanvas == [ p \in PageNums |->
                 IF p = 1 THEN [el |-> 1, w |-> mapIn.width, h |-> mapIn.height,
                                rscale |-> 0, rdoc |-> 0]
                 ELSE NoCanvas ]

ComputeStyle ==
    /\ mapIn # NoMapIn
    /\ mapOut = NoStyle
    /\ mapOut' = getHighlightStyle(MapCanvas, MapHighlight)
    /\ last' = [op |-> "getHighlightStyle", arg |-> 0]
    /\ UNCHANGED << pdfUrl, pdfDoc, renderedPages, scale, totalPages, isLoading,
                    highlights, canvas, elems, loads, loadSeq, tasks, timers,
                    now, shown, scrollReq, calls, zooms, zoomCap, mapIn,
                    scrollVars, chatVars,
                    hookVars >>

SpecMap == InitMap /\ [][ComputeStyle]_vars

\* ----------------------------------------------------------------- claims
Active == highlights # << >>
ActiveBatch == highlights[1].batch
Created(hl) == hl[1].id[2]

\* C1: the active highlight set is always empty or exactly the complete
\* batch of the most recent highlightAndScroll call (never a merge of two
\* batches), and right after a call with citation B it is exactly B's boxes.
C1_OneBatchNewestWins ==
    /\ \A i, j \in DOMAIN highlights : highlights[i].batch = highlights[j].batch
    /\ Active => /\ Created(highlights) <= now
                 /\ \E c \in CitIds :
                        highlights = NewHighlights(c, Created(highlights), calls)
    /\ last.op = "highlightAndScroll"
          => highlights = NewHighlights(last.arg, now, calls)

\* C1 witness: a second call with citation B was made while the batch of a
\* different citation A had not expired, and B's batch is the active set.
C1_Witness ==
    /\ last.op = "highlightAndScroll"
    /\ calls >= 2
    /\ \E t \in timers : t.batch = calls - 1 /\ t.cit # last.arg /\ t.due > now
    /\ highlights = NewHighlights(last.arg, now, calls)

\* C2: an expiry timer that fires while the active batch is not the batch
\* that started it leaves the highlight set alone.
C2_StaleTimerSparesNewerBatch ==
    [][ (last'.op = "timerFire" /\ Active /\ ActiveBatch # last'.arg)
           => highlights' = highlights ]_vars

\* C3: a batch that is neither superseded by a later highlightAndScroll nor
\* removed by clearHighlights stays the active batch at every instant before
\* ExpiryMs have passed since its creation, and no batch is active once more
\* than ExpiryMs have passed since its creation.
C3_ActiveForExactlyExpiry ==
    [][ /\ (Active /\ last'.op \notin {"highlightAndScroll", "clearHighlights"}
               /\ now' < Created(highlights) + ExpiryMs)
            => highlights' = highlights
        /\ (highlights' # << >>) => now' <= Created(highlights') + ExpiryMs ]_vars

\* C4: at most one expiry timer is pending.
C4_AtMostOneTimer == Cardinality(timers) <= 1

\* C5: the scale stays within [ScaleMin, ScaleMax]; a zoom-in click at
\* ScaleMax and a zoom-out click at ScaleMin leave the scale at the bound.
C5_ScaleClamped ==
    /\ scale \in ScaleMin..ScaleMax
    /\ (last.op = "zoomIn" /\ last.arg = ScaleMax) => scale = ScaleMax
    /\ (last.op = "zoomOut" /\ last.arg = ScaleMin) => scale = ScaleMin
    /\ (last.op = "zoomIn" /\ last.arg < ScaleMax) => scale = last.arg + ScaleStep
    /\ (last.op = "zoomOut" /\ last.arg > ScaleMin) => scale = last.arg - ScaleStep
    /\ last.op = "reset" => scale = ScaleInit

\* C5 witness: a zoom-in click was taken at ScaleMax and the scale stayed.
C5_Witness == last.op = "zoomIn" /\ last.arg = ScaleMax /\ scale = ScaleMax

\* C6: a render task started for another scale or document than the current
\* one does not change any canvas when it completes.
C6_StaleRenderDropped ==
    [][ \A t \in tasks :
          (RenderComplete(t) /\ (t.scale # scale \/ t.doc # pdfDoc))
             => canvas' = canvas ]_vars

\* C7: every canvas that holds a rendered surface holds one rendered at the
\* current scale.
C7_CacheAtCurrentScale ==
    \A p \in PageNums :
        (canvas[p] # NoCanvas /\ canvas[p].rscale # 0) => canvas[p].rscale = scale

\* The scale has changed since the call that installed highlight h.
ScaleChangedSince(h) ==
    \E t \in timers : t.batch = h.batch /\ t.atScale # scale

\* The canvas holds the page rendered at the current scale, current document.
RenderedNow(c) == c # NoCanvas /\ c.rscale = scale /\ c.rdoc = pdfDoc.id

\* C8: when the scale has changed while a batch is active, the batch is
\* still there, and as soon as the target page's canvas holds the render at
\* the new scale every displayed rectangle is the mapping of its box against
\* the canvas's current size.
C8_RepositionedAfterRescale ==
    \A i \in DOMAIN highlights :
        (ScaleChangedSince(highlights[i])
            /\ RenderedNow(CanvasAt(canvas, highlights[i].page + 1)))
          => shown[i] = getHighlightStyle(canvas, highlights[i])

\* No rectangle of the active batch has been displayed.
Pending == Active /\ \A i \in DOMAIN shown : shown[i] = NoStyle

\* C9: a batch whose page was not rendered when it was requested, and which
\* has not been displayed yet, is removed or replaced only by a newer
\* highlightAndScroll (an explicit clearHighlights is let through as well).
C9_PendingBatchKept ==
    [][ (Pending /\ highlights' # highlights)
           => last'.op \in {"highlightAndScroll", "clearHighlights"} ]_vars

\* The target page of h has no rendered surface: no canvas, or a canvas whose
\* first render has not completed.
RenderPendingFor(h) ==
    LET c == CanvasAt(canvas, h.page + 1) IN c = NoCanvas \/ c.rscale = 0

\* C10: the mapping yields no rectangle for a highlight whose source width
\* or height is zero, or whose target page has no rendered surface yet.
C10_NoRectWithoutFrame ==
    \A i \in DOMAIN highlights :
        (highlights[i].sourcePageWidth = 0 \/ highlights[i].sourcePageHeight = 0
            \/ RenderPendingFor(highlights[i]))
          => getHighlightStyle(canvas, highlights[i]) = NoStyle

\* ------------------------------------------------------------------------
\* An exact number q equals the quotient a / b (b positive).
IsQuotient(q, a, b) == q.d > 0 /\ q.n * b = a * q.d
Mapped == mapIn # NoMapIn /\ mapOut # NoStyle

\* C11: for positive source and rendered dimensions the rectangle of a box
\* is left = x0*scaleX, top = y0*scaleY, width = (x1-x0)*scaleX and
\* height = (y1-y0)*scaleY in px, with scaleX = renderedWidth/sourceWidth and
\* scaleY = renderedHeight/sourceHeight taken independently; x1 >= x0 and
\* y1 >= y0 give a non-negative width and height.
C11_PixelRect ==
    Mapped =>
      LET b == mapIn.bbox
          sw == mapIn.sourcePageWidth
          sh == mapIn.sourcePageHeight
      IN  /\ \A f \in {"left", "top", "width", "height"} : mapOut[f][2] = "px"
          /\ IsQuotient(mapOut.left[1],   b.x0 * mapIn.width, sw)
          /\ IsQuotient(mapOut.top[1],    b.y0 * mapIn.height, sh)
          /\ IsQuotient(mapOut.width[1],  (b.x1 - b.x0) * mapIn.width, sw)
          /\ IsQuotient(mapOut.height[1], (b.y1 - b.y0) * mapIn.height, sh)
          /\ (b.x1 >= b.x0 => mapOut.width[1].n >= 0)
          /\ (b.y1 >= b.y0 => mapOut.height[1].n >= 0)

\* A box with an extent mapped with two different scale factors.
C11_Witness ==
    /\ Mapped
    /\ mapIn.bbox.x1 > mapIn.bbox.x0 /\ mapIn.bbox.y1 > mapIn.bbox.y0
    /\ mapIn.bbox.x0 > 0 /\ mapIn.bbox.y0 > 0
    /\ mapIn.width * mapIn.sourcePageHeight
          # mapIn.height * mapIn.sourcePageWidth
    /\ mapOut.width[1] # mapOut.height[1]

\* Exact arithmetic on the numbers of a style, for the inverse mapping.
RatAdd(p, q) == Frac(p.n * q.d + q.n * p.d, p.d * q.d)
RatScale(q, a, b) == Frac(q.n * a, q.d * b)
Whole(k) == [n |-> k, d |-> 1]
\* The style mapped back with the inverse factors 1/scaleX and 1/scaleY.
MapBack(st, sw, sh, cw, ch) ==
    [ x0 |-> RatScale(st.left[1], sw, cw),
      y0 |-> RatScale(st.top[1], sh, ch),
      x1 |-> RatScale(RatAdd(st.left[1], st.width[1]), sw, cw),
      y1 |-> RatScale(RatAdd(st.top[1], st.height[1]), sh, ch) ]

\* C12: mapping a box to pixel space and back with the inverse scale
\* factors gives the original box, for all positive dimensions.
C12_RoundTrip ==
    Mapped =>
      MapBack(mapOut, mapIn.sourcePageWidth, mapIn.sourcePageHeight,
              mapIn.width, mapIn.height)
        = [ x0 |-> Whole(mapIn.bbox.x0), y0 |-> Whole(mapIn.bbox.y0),
            x1 |-> Whole(mapIn.bbox.x1), y1 |-> Whole(mapIn.bbox.y1) ]

\* A round trip through pixel values that are not whole numbers.
C12_Witness ==
    /\ Mapped
    /\ mapOut.left[1].d > 1 /\ mapOut.top[1].d > 1
    /\ mapOut.width[1].d > 1 /\ mapOut.height[1].d > 1
    /\ mapIn.bbox.x0 # mapIn.bbox.y0

\* ------------------------------------------------------------------------
\* The markers of a text, stated on the text itself: <<i, j>> when s[i..j]
\* is '[' digits ']'.  Two of them never overlap.
IsMarker(s, i, j) ==
    /\ i + 2 <= j /\ j <= Len(s)
    /\ s[i] = "[" /\ s[j] = "]"
    /\ \A k \in (i + 1)..(j - 1) : s[k] \in Digits
MarkerSpans(s) == { m \in (1..Len(s)) \X (1..Len(s)) : IsMarker(s, m[1], m[2]) }
NthMarker(s, n) ==
    CHOOSE m \in MarkerSpans(s) :
        Cardinality({ x \in MarkerSpans(s) : x[1] < m[1] }) = n - 1
\* The text before the first marker (n = 0) or after the n-th one, up to
\* the next marker or the end.
Between(s, n) ==
    LET K    == Cardinality(MarkerSpans(s))
        from == IF n = 0 THEN 1 ELSE NthMarker(s, n)[2] + 1
        to   == IF n = K THEN Len(s) ELSE NthMarker(s, n + 1)[1] - 1
    IN  SubSeq(s, from, to)

RECURSIVE RawText(_)
\* The source text an element's children stand for.
RawText(kids) ==
    IF kids = << >> THEN << >>
    ELSE (IF Head(kids).tag = "strong"
          THEN << "*", "*" >> \o Head(kids).children \o << "*", "*" >>
          ELSE Head(kids).children) \o RawText(Tail(kids))

RECURSIVE WholeText(_)
\* The source text a list of elements stands for.
WholeText(els) ==
    IF els = << >> THEN << >>
    ELSE RawText(Head(els).children) \o WholeText(Tail(els))

Tokenized == parsedContent # NoElement /\ parsedContent.tag = "div"
ClaimSpan(k, t) == [tag |-> "span", key |-> k, onClick |-> 0,
                    children |-> << [tag |-> "text", key |-> 0,
                                     children |-> t, onClick |-> 0] >>]
ClaimButton(k, t, c) == [tag |-> "button", key |-> k, onClick |-> c,
                         children |-> << [tag |-> "text", key |-> 0,
                                          children |-> t, onClick |-> 0] >>]

\* C13: every substring '[' digits ']' of the answer becomes a reference
\* token of its own carrying those digits, in text order, and the text
\* between markers becomes the literal tokens; adjacent markers stay
\* separate, and "See [1] and [2]." with {1: c1, 2: c2} gives literal
\* "See ", reference(1, c1), literal " and ", reference(2, c2), literal ".".
C13_MarkersTokenized ==
    Tokenized =>
      LET s    == message.content
          kids == parsedContent.children
          K    == Cardinality(MarkerSpans(s))
      IN  /\ Len(kids) = 2 * K + 1
          /\ \A n \in 1..K :
                /\ kids[2 * n].tag \in {"button", "span"}
                /\ RawText(kids[2 * n].children)
                     = SubSeq(s, NthMarker(s, n)[1], NthMarker(s, n)[2])
          /\ \A n \in 0..K :
                /\ kids[2 * n + 1].tag = "span"
                /\ kids[2 * n + 1].onClick = 0
                /\ RawText(kids[2 * n + 1].children) = Between(s, n)
          /\ (s = Example /\ DOMAIN message.citations.table
                               = { << "1" >>, << "2" >> })
               => kids = << ClaimSpan(0, << "S", "e", "e", " " >>),
                            ClaimButton(1, << "[", "1", "]" >>,
                                        message.citations.table[<< "1" >>]),
                            ClaimSpan(2, << " ", "a", "n", "d", " " >>),
                            ClaimButton(3, << "[", "2", "]" >>,
                                        message.citations.table[<< "2" >>]),
                            ClaimSpan(4, << "." >>) >>

\* Adjacent markers rendered as two references.
C13_Witness ==
    /\ Tokenized
    /\ message.content = Adjacent
    /\ Len(parsedContent.children) = 5
    /\ parsedContent.children[2].tag = "button"
    /\ parsedContent.children[4].tag = "button"
    /\ parsedContent.children[2].onClick # parsedContent.children[4].onClick

\* C14: a marker whose digits are not a key of the citation table is no
\* error: the whole text is still parsed, that marker is shown as plain
\* text without a click action, and a marker whose digits are a key is a
\* clickable reference bound to exactly the table entry for those digits.
C14_UnknownMarkerIsPlainText ==
    Tokenized =>
      LET s    == message.content
          kids == parsedContent.children
          K    == Cardinality(MarkerSpans(s))
          tbl  == message.citations.table
      IN  /\ Len(kids) = 2 * K + 1
          /\ WholeText(kids) = s
          /\ \A n \in 1..K :
                LET m      == NthMarker(s, n)
                    digits == SubSeq(s, m[1] + 1, m[2] - 1)
                IN  IF digits \in DOMAIN tbl
                    THEN kids[2 * n] = ClaimButton(2 * n - 1,
                                                   SubSeq(s, m[1], m[2]),
                                                   tbl[digits])
                    ELSE kids[2 * n] = ClaimSpan(2 * n - 1,
                                                 SubSeq(s, m[1], m[2]))

\* One marker of the text is a key of the table and another is not.
C14_Witness ==
    /\ Tokenized
    /\ message.content = Adjacent
    /\ DOMAIN message.citations.table = { << "1" >> }
    /\ parsedContent.children[2].tag = "button"
    /\ parsedContent.children[4].tag = "span"

\* ------------------------------------------------------------------------
\* The pages whose top edge lies between the viewport top and its midpoint.
TopHalfPages ==
    { p \in PageNums :
        /\ canvas[p] # NoCanvas
        /\ RectTop(canvas, p, scrollTop) >= 0
        /\ 2 * RectTop(canvas, p, scrollTop) <= Viewport.clientHeight }

\* C15: after every scroll event the current page is the first page in
\* ascending order whose top edge lies between the viewport top and its
\* midpoint (inclusive); of several such pages the lowest one is reported.
C15_FirstPageInTopHalf ==
    (last.op = "scroll" /\ TopHalfPages # {})
      => /\ currentPage \in TopHalfPages
         /\ \A p \in TopHalfPages : currentPage <= p

\* A scroll event with two pages in the top half.
C15_Witness ==
    /\ last.op = "scroll"
    /\ Cardinality(TopHalfPages) = 2
    /\ currentPage = 1

\* C16: whenever the viewport is at the top with the pages shown, the
\* current page is the first one.
C16_TopIsFirstPage ==
    (scrollTop = 0 /\ ~isLoading /\ canvas[1] # NoCanvas) => currentPage = 1

\* ------------------------------------------------------------------------
\* C17: every highlightAndScroll(citation) asks the viewport to scroll to
\* the citation's page, so no batch is installed without the viewport being
\* navigated to its page.
C17_NavigateAlwaysScrolls ==
    last.op = "highlightAndScroll" => scrollReq = Citations[last.arg].page

\* C18: the batch installed for a citation has one highlight per bounding
\* box, in the order of the citation's list, each tagged with the
\* citation's page and source page width and height.
C18_BatchMirrorsCitation ==
    last.op = "highlightAndScroll" =>
      LET c == Citations[last.arg]
      IN  /\ Len(highlights) = Len(c.boxes)
          /\ \A i \in 1..Len(c.boxes) :
                /\ highlights[i].bbox = c.boxes[i]
                /\ highlights[i].page = c.page
                /\ highlights[i].sourcePageWidth = c.pageWidth
                /\ highlights[i].sourcePageHeight = c.pageHeight

\* A batch of two different boxes.
C18_Witness ==
    /\ last.op = "highlightAndScroll"
    /\ Len(highlights) = 2
    /\ highlights[1].bbox # highlights[2].bbox

\* C19: clearHighlights empties the highlight set when a batch is active,
\* changes nothing of it when there is none, and in both cases leaves the
\* scale, the document, the page list, the canvases and the current page
\* as they were.
C19_ClearFrame ==
    [][ last'.op = "clearHighlights" =>
          /\ highlights' = << >>
          /\ shown' = << >>
          /\ (highlights = << >> => timers' = timers)
          /\ scale' = scale
          /\ pdfDoc' = pdfDoc /\ totalPages' = totalPages
          /\ isLoading' = isLoading
          /\ renderedPages' = renderedPages
          /\ canvas' = canvas
          /\ currentPage' = currentPage /\ scrollTop' = scrollTop ]_vars

\* A clear of an active batch with the pages shown.
C19_Witness ==
    /\ last.op = "clearHighlights"
    /\ last.arg > 0
    /\ highlights = << >>
    /\ renderedPages # << >>
    /\ \E p \in PageNums : canvas[p] # NoCanvas /\ canvas[p].rscale = scale

\* ------------------------------------------------------------------------
\* The pending renders and the surfaces of the pages other than p.
OtherTasks(ts, p) == { t \in ts : t.page # p }
\* A render of page p into its present canvas for the present document and
\* scale is under way.
RenderUnderWay(p) ==
    \E t \in tasks : /\ t.page = p /\ t.el = canvas[p].el
                     /\ t.doc = pdfDoc /\ t.scale = scale
\* The canvas of page p was resized by a render that drew nothing.
DrawFailed(p) ==
    /\ canvas[p] # NoCanvas /\ canvas[p].rscale = 0
    /\ canvas[p].w = ViewportOf(pdfDoc, scale).w

\* C20: a failed render of one page leaves the pending renders and the
\* canvases of all other pages as they were, and the next render pass
\* renders every shown page again, the failed one included, whatever
\* happened to the others.
C20_RenderFailureContained ==
    [][ /\ last'.op \in {"renderFail", "drawFail"} =>
            /\ OtherTasks(tasks', last'.arg) = OtherTasks(tasks, last'.arg)
            /\ \A p \in PageNums \ {last'.arg} : canvas'[p] = canvas[p]
            /\ renderedPages' = renderedPages
        /\ (last'.op = "clearHighlights" /\ pdfDoc # NoDoc) =>
            \A p \in PageNums :
                canvas'[p] # NoCanvas =>
                  \E t \in tasks' : /\ t.page = p /\ t.el = canvas'[p].el
                                     /\ t.doc = pdfDoc' /\ t.scale = scale'
      ]_vars

\* After page 1 failed to draw while page 2 is rendered, a render pass has
\* started page 1 again.
C20_Witness ==
    /\ last.op = "clearHighlights"
    /\ pdfDoc # NoDoc
    /\ DrawFailed(1)
    /\ RenderUnderWay(1)
    /\ canvas[2] # NoCanvas /\ canvas[2].rscale = scale

\* ------------------------------------------------------------------------
\* C21: when the load of a document fails the viewer leaves the loading
\* state and shows the failure to the user.
C21_LoadFailureShown ==
    last.op = "loadFail" =>
        /\ ~isLoading
        /\ ViewBody(isLoading) = "pdf-error"

\* ------------------------------------------------------------------------
\* C22: the stored highlight batch is created only by highlightAndScroll
\* and removed only by a timer, a new highlightAndScroll or clearHighlights;
\* zoom clicks, scroll events, render completions and render failures leave
\* it (pages, source boxes, source dimensions) unchanged.
C22_OnlyHighlightOpsChangeBatch ==
    [][ /\ last'.op \in {"zoomIn", "zoomOut", "reset", "scroll",
                          "renderComplete", "renderFail", "drawFail"}
             => highlights' = highlights
        /\ highlights' # highlights
             => last'.op \in {"highlightAndScroll", "timerFire",
                              "clearHighlights"}
        /\ (highlights' # highlights /\ highlights' # << >>)
             => last'.op = "highlightAndScroll" ]_vars

\* A scroll event after a zoom click while a batch is stored.
C22_Witness ==
    /\ last.op = "scroll"
    /\ zooms > 0
    /\ highlights # << >>
    /\ scrollTop > 0

\* ------------------------------------------------------------------------
\* The identifiers of the batch whose timer is t, as highlightAndScroll
\* made them.
BatchIds(t) ==
    LET hl == NewHighlights(t.cit, t.due - ExpiryMs, t.batch)
    IN  { hl[i].id : i \in DOMAIN hl }

\* C23: two different highlight batches never carry the same identifiers,
\* also when both calls happen within one clock tick.
C23_BatchIdsDistinct ==
    \A t1, t2 \in timers :
        t1.batch # t2.batch => BatchIds(t1) \cap BatchIds(t2) = {}

RECURSIVE Join(_)
\* The concatenation of a list of strings.
Join(parts) == IF parts = << >> THEN << >>
               ELSE Head(parts) \o Join(Tail(parts))

\* C24: parsing loses and invents no text: the literal pieces and the
\* bracketed markers, concatenated in order, are the input text, whether or
\* not the markers resolve; the rendered elements stand for the same text.
C24_ParseKeepsText ==
    Tokenized =>
        /\ Join(Split(message.content)) = message.content
        /\ Len(parsedContent.children) = Len(Split(message.content))
        /\ WholeText(parsedContent.children) = message.content

\* A text with an unresolved marker between two literal pieces.
C24_Witness ==
    /\ Tokenized
    /\ message.content = Unknown
    /\ DOMAIN message.citations.table = { << "1" >> }
    /\ Len(parsedContent.children) = 3
    /\ parsedContent.children[2].tag = "span"

C26_OneUserOneAssistant ==
    [][ /\ last'.op = "sendMessage" =>
            /\ Len(messages') = Len(messages) + 1
            /\ SubSeq(messages', 1, Len(messages)) = messages
            /\ messages'[Len(messages')].role = "user"
            /\ messages'[Len(messages')].q = last'.arg
            /\ \E qr \in queries' \ queries :
                    /\ qr.q = last'.arg
                    /\ messages'[Len(messages')].content = qr.question
        /\ last'.op \in {"queryResolve", "queryReject"} =>
            /\ Len(messages') = Len(messages) + 1
            /\ SubSeq(messages', 1, Len(messages)) = messages
            /\ messages'[Len(messages')].role = "assistant"
            /\ messages'[Len(messages')].q = last'.arg
            /\ queries' = { qr \in queries : qr.q # last'.arg }
            /\ queries' # queries
            /\ IF last'.op = "queryResolve"
               THEN /\ ~messages'[Len(messages')].isError
                    /\ \E r \in Results :
                         /\ messages'[Len(messages')].content = r.answer
                         /\ messages'[Len(messages')].citations = r.citations
               ELSE /\ messages'[Len(messages')].isError
                    /\ messages'[Len(messages')].citations.defined
                    /\ DOMAIN messages'[Len(messages')].citations.table = {}
        /\ last'.op \notin {"sendMessage", "queryResolve", "queryReject"} =>
            /\ queries' = queries
            /\ \/ messages' = messages
               \/ last'.op \in {"newDocument", "uploadComplete"}
        /\ chatIsLoading' = (queries' # {}) ]_vars

\* A query that failed: the user message, then the error message, and the
\* flag down.
C26_Witness ==
    /\ last.op = "queryReject"
    /\ Len(messages) = 2
    /\ messages[1].role = "user"
    /\ messages[2].isError
    /\ ~chatIsLoading

\* C27: every assistant message is immediately preceded by the user
\* message whose query produced it, also after clearChat with a query in
\* flight.
C27_AnswerFollowsItsQuestion ==
    \A i \in DOMAIN messages :
        messages[i].role = "assistant" =>
            /\ i > 1
            /\ messages[i - 1].role = "user"
            /\ messages[i - 1].q = messages[i].q

\* ------------------------------------------------------------------------
\* C28: when the source changes while a load is in flight, then once all
\* loads have settled the document shown and the page count are those of
\* the current source, whatever the order of completion.
C28_LatestSourceShown ==
    loads = {} =>
        /\ pdfDoc.url = pdfUrl
        /\ totalPages = NumPages(pdfUrl)
        /\ (~isLoading => Len(renderedPages) = NumPages(pdfUrl))

====
